---- MODULE Spec2Model ----
(***************************************************************************)
(* cargo-localize (src/src/main.rs): vendoring of the resolved dependency   *)
(* graph into a project-local directory and rewriting of the manifests.     *)
(*                                                                          *)
(* The filesystem is modelled by what the program reads and writes of it:   *)
(* the candidate registry roots with their extracted crate directories, the *)
(* vendor root with one optional directory per name, and for every manifest *)
(* its document, its .bak sidecar and its .orig sidecar.  A run is cut into *)
(* the iterations of its two loops; runs may follow one another on the      *)
(* filesystem the previous run left.                                        *)
(***************************************************************************)
EXTENDS Naturals, Sequences, FiniteSets, TLC

VARIABLES
    metadata,     \* the resolved graph cargo metadata returns
    cache,        \* the candidate registry roots and what they hold
    vendor,       \* the vendor root: directory name -> optional directory
    root,         \* the project's Cargo.toml, its sidecars and Cargo.lock
    pc,           \* where main stands: idle, copy, update, done, failed
    i,            \* the index of the loop main stands in
    cargo_home,   \* the registry root copy_dependencies chose
    source_path,  \* per node, what find_crate_source returned in this run
    prev_exit,    \* how the previous run ended: none, ok, err
    at_start,     \* the files as this run found them
    calls         \* per manifest, the calls of update_single_cargo_toml in this run

vars == <<metadata, cache, vendor, root, pc, i, cargo_home, source_path,
          prev_exit, at_start, calls>>

(***************************************************************************)
(* Bounds                                                                   *)
(***************************************************************************)
\* Dependencies in the resolved graph besides the root package.
MaxDeps == 2

(***************************************************************************)
(* Paths: sequences of components                                           *)
(***************************************************************************)
\* An optional value (a file or directory that may be absent, an Option).
None == <<>>
Some(x) == <<x>>

\* args.project_path.canonicalize()
ProjectPath == <<"proj">>

\* --third-party-dir, default value
ThirdPartyDir == "3rd-party"

\* project_path.join(&args.third_party_dir)
ThirdPartyPath == ProjectPath \o <<ThirdPartyDir>>

\* Path::starts_with: component-wise prefix
StartsWith(path, base) ==
    /\ Len(base) <= Len(path)
    /\ \A k \in 1..Len(base) : path[k] = base[k]

\* Path::parent
Parent(path) == SubSeq(path, 1, Len(path) - 1)

\* Path::file_name
FileName(path) == path[Len(path)]

RECURSIVE CommonPrefix(_, _)
CommonPrefix(a, b) ==
    IF a = <<>> \/ b = <<>> \/ Head(a) # Head(b) THEN 0
    ELSE 1 + CommonPrefix(Tail(a), Tail(b))

\* pathdiff::diff_paths on two absolute paths without "." or "..": the
\* common prefix is dropped, every remaining component of base becomes
\* "..", the remaining components of path follow.
diff_paths(path, base) ==
    LET n == CommonPrefix(path, base)
    IN  [k \in 1..(Len(base) - n) |-> ".."] \o SubSeq(path, n + 1, Len(path))

\* Path::to_string_lossy
RECURSIVE to_string_lossy(_)
to_string_lossy(path) ==
    IF path = <<>> THEN ""
    ELSE IF Len(path) = 1 THEN path[1]
    ELSE path[1] \o "/" \o to_string_lossy(Tail(path))

\* format!("{}-{}", package.name, package.version)
crate_dir_name(package) == package.name \o "-" \o package.version

(***************************************************************************)
(* The resolved graph (cargo metadata)                                      *)
(***************************************************************************)
RegistrySrc(rootName) == <<rootName, "registry", "src">>

\* The root package of the project: always the first package and node.
RootPackage ==
    [name |-> "app", version |-> "0.1.0", features |-> <<>>,
     manifest_path |-> ProjectPath \o <<"Cargo.toml">>]

\* The packages a graph is drawn from: three registry crates (two versions
\* of one name among them) and a workspace member that shares name and
\* version with a registry crate.
DepKinds ==
    { [name |-> "foo", version |-> "1.2.3", features |-> <<"x", "y">>,
       manifest_path |-> RegistrySrc("home") \o <<"index-a", "foo-1.2.3", "Cargo.toml">>],
      [name |-> "foo", version |-> "2.0.0", features |-> <<>>,
       manifest_path |-> RegistrySrc("home") \o <<"index-a", "foo-2.0.0", "Cargo.toml">>],
      [name |-> "bar", version |-> "1.0.0", features |-> <<"y">>,
       manifest_path |-> RegistrySrc("home") \o <<"index-a", "bar-1.0.0", "Cargo.toml">>],
      [name |-> "foo", version |-> "1.2.3", features |-> <<"x", "y">>,
       manifest_path |-> ProjectPath \o <<"foo", "Cargo.toml">>] }

SeqsUpTo(S, n) == UNION { [1..k -> S] : k \in 1..n }

\* metadata.packages and metadata.resolve.nodes, in one order: package k has
\* identity k, node k carries its resolved features.
Graphs ==
    { [packages |-> [k \in 1..(Len(deps) + 1) |->
                        LET p == IF k = 1 THEN RootPackage ELSE deps[k - 1]
                        IN  [id |-> k, name |-> p.name, version |-> p.version,
                             manifest_path |-> p.manifest_path]],
       nodes |-> [k \in 1..(Len(deps) + 1) |->
                        [id |-> k,
                         features |-> IF k = 1 THEN RootPackage.features
                                      ELSE deps[k - 1].features]],
       workspace_root |-> ProjectPath]
      : deps \in SeqsUpTo(DepKinds, MaxDeps) }

\* package_map.get(&node.id)
package_map(id) == metadata.packages[id]

is_workspace_package(package, workspace_root) ==
    StartsWith(package.manifest_path, workspace_root)

(***************************************************************************)
(* Manifest documents                                                       *)
(*                                                                          *)
(* A document is the sequence of its dependency-like entries in document    *)
(* order, each with the table it stands in (a path of table names), its key *)
(* and its item.  An item is a string (kind "string"), an inline table       *)
(* ("inline"), a table ("table") or anything else ("other"); a table's      *)
(* fields are key/value pairs in order.  The value of `features` is a        *)
(* sequence of strings, every other value is a string.                      *)
(***************************************************************************)
Str(v) == [kind |-> "string", value |-> v, fields |-> <<>>]
Inline(fs) == [kind |-> "inline", value |-> "", fields |-> fs]
Block(fs) == [kind |-> "table", value |-> "", fields |-> fs]
Other(v) == [kind |-> "other", value |-> v, fields |-> <<>>]

Entry(section, key, item) == [section |-> section, key |-> key, item |-> item]

HasField(fields, k) == \E j \in 1..Len(fields) : fields[j][1] = k

\* table.get(k): the value of the one pair with key k
Get(fields, k) == fields[CHOOSE j \in 1..Len(fields) : fields[j][1] = k][2]

\* table.remove(k): the other pairs keep their order
Remove(fields, k) ==
    LET Keep(p) == p[1] # k IN SelectSeq(fields, Keep)

\* Mutant of Insert: the pair is appended even if the key is there already.
InsertAppend(fields, k, v) == Append(fields, <<k, v>>)

\* table.insert(k, v): an existing key keeps its place and takes the new
\* value, a new key goes last
Insert(fields, k, v) ==
    IF HasField(fields, k)
    THEN [j \in 1..Len(fields) |-> IF fields[j][1] = k THEN <<k, v>> ELSE fields[j]]
    ELSE Append(fields, <<k, v>>)

\* let sections = ["dependencies", "dev-dependencies", "build-dependencies"]
sections == {"dependencies", "dev-dependencies", "build-dependencies"}

\* The tables update_single_cargo_toml hands to update_dependencies: the
\* three sections at the top level and under every [target.<spec>].
Visited(section) ==
    \/ Len(section) = 1 /\ section[1] \in sections
    \/ Len(section) = 3 /\ section[1] = "target" /\ section[3] \in sections

(***************************************************************************)
(* find_package_for_dependency and the two get_package_name_from_table      *)
(***************************************************************************)
NoName == "<None>"
NotFound == [found |-> FALSE]

\* table.get("package").and_then(as_str)
get_package_name_from_table(fields) ==
    IF HasField(fields, "package") THEN Get(fields, "package") ELSE NoName

\* The first node of resolve.nodes whose package has the name.
find_package_for_dependency(dep_name, package_name) ==
    LET actual_name == IF package_name = NoName THEN dep_name ELSE package_name
        hits == { k \in 1..Len(metadata.nodes) :
                    package_map(metadata.nodes[k].id).name = actual_name }
    IN  IF hits = {} THEN NotFound
        ELSE LET k == CHOOSE h \in hits : \A g \in hits : h <= g
             IN  [found |-> TRUE,
                  package |-> package_map(metadata.nodes[k].id),
                  features |-> metadata.nodes[k].features]

(***************************************************************************)
(* update_dependencies, one entry of the table                              *)
(***************************************************************************)
\* dep_path.exists(): an entry of that name under the vendor root
Exists(dep_path) ==
    /\ Parent(dep_path) = ThirdPartyPath
    /\ FileName(dep_path) \in DOMAIN vendor
    /\ vendor[FileName(dep_path)] # None

\* rel_path.to_string_lossy() of diff_paths(&dep_path, cargo_toml_path.parent())
rel_path(dep_path, cargo_toml_path) ==
    to_string_lossy(diff_paths(dep_path, Parent(cargo_toml_path)))

\* Mutant of InsertFeatures: `features` is written even when empty.
InsertFeaturesAlways(fields, features) == Insert(fields, "features", features)

\* if !features.is_empty() { table.insert("features", ...) }
InsertFeatures(fields, features) ==
    IF features # <<>> THEN Insert(fields, "features", features) ELSE fields

\* Mutant of RemoveSourceFields: `registry` is left in place.
RemoveAllButRegistry(fields) ==
    Remove(Remove(Remove(Remove(Remove(fields,
        "version"), "git"), "branch"), "tag"), "rev")

\* The six table.remove(..) calls.
RemoveSourceFields(fields) ==
    Remove(Remove(Remove(Remove(Remove(Remove(fields,
        "version"), "git"), "branch"), "tag"), "rev"), "registry")

\* Item::Value(Value::String(_))
UpdateString(dep_name, item, cargo_toml_path) ==
    LET info == find_package_for_dependency(dep_name, NoName)
    IN  IF ~info.found THEN item
        ELSE LET dep_path == ThirdPartyPath \o <<crate_dir_name(info.package)>>
             IN  IF ~Exists(dep_path) THEN item
                 ELSE Inline(InsertFeatures(
                         Insert(<<>>, "path", rel_path(dep_path, cargo_toml_path)),
                         info.features))

\* Item::Value(Value::InlineTable(table)) and Item::Table(table)
UpdateTable(dep_name, item, cargo_toml_path) ==
    LET package_name == get_package_name_from_table(item.fields)
        info == find_package_for_dependency(dep_name, package_name)
    IN  IF ~info.found THEN item
        ELSE LET dep_path == ThirdPartyPath \o <<crate_dir_name(info.package)>>
             IN  IF ~Exists(dep_path) THEN item
                 ELSE [item EXCEPT !.fields =
                         InsertFeatures(
                             Insert(RemoveSourceFields(item.fields), "path",
                                    rel_path(dep_path, cargo_toml_path)),
                             info.features)]

\* The match on dep_value.
update_dependency(dep_name, item, cargo_toml_path) ==
    CASE item.kind = "string" -> UpdateString(dep_name, item, cargo_toml_path)
      [] item.kind \in {"inline", "table"} -> UpdateTable(dep_name, item, cargo_toml_path)
      [] OTHER -> item

\* The document after the loops over the sections: every entry of a visited
\* table is updated, everything else is as parsed.
update_dependencies(doc, cargo_toml_path) ==
    [j \in 1..Len(doc) |->
        IF Visited(doc[j].section)
        THEN [doc[j] EXCEPT !.item =
                update_dependency(doc[j].key, doc[j].item, cargo_toml_path)]
        ELSE doc[j]]

\* Mutant of Backup: the .bak is refreshed on every call.
BackupAlways(file) == file.manifest

\* if !fs::exists(&bak_filepath) { fs::copy(cargo_toml_path, bak_filepath) }
Backup(file) == IF file.bak = None THEN file.manifest ELSE file.bak

\* update_single_cargo_toml on a manifest with its two sidecars.
update_single_cargo_toml(file, cargo_toml_path) ==
    [file EXCEPT !.bak = Backup(file),
                 !.manifest = Some(update_dependencies(file.manifest[1], cargo_toml_path)),
                 !.orig = FALSE]

(***************************************************************************)
(* The registry cache                                                       *)
(***************************************************************************)
\* The directory names the vendor root and the registries may hold.
VendorNames == {"foo-1.2.3", "foo-2.0.0", "bar-1.0.0"}

\* The one crate a registry root may be lacking.
LackName == "foo-1.2.3"

\* The manifest of an extracted crate, by its place in the cache.
SourceManifest(dir) ==
    CASE FileName(dir) = "foo-1.2.3" /\ dir[Len(dir) - 1] = "index-a" ->
            << Entry(<<"dependencies">>, "bar", Str("1.0")) >>
      [] FileName(dir) = "foo-1.2.3" ->
            << Entry(<<"dependencies">>, "bar", Str("1.0")),
               Entry(<<"features">>, "default", Other("[]")) >>
      [] FileName(dir) = "foo-2.0.0" ->
            << Entry(<<"dependencies">>, "bar",
                     Block(<< <<"version", "1">>, <<"registry", "alt">> >>)) >>
      [] OTHER ->
            << Entry(<<"target", "cfg(unix)", "dependencies">>, "foo",
                     Inline(<< <<"version", "1.2">>, <<"features", <<"z">> >>,
                               <<"optional", "true">> >>)) >>

\* An extracted crate as the copy finds it: its tree (told apart by where it
\* lies), its Cargo.toml and the Cargo.toml.orig cargo publishes with it.
SourceDir(dir) ==
    [tree |-> dir, manifest |-> Some(SourceManifest(dir)), bak |-> None, orig |-> TRUE]

\* A registry root holding every crate once, under index-a.
FullDirs(rootName) == { RegistrySrc(rootName) \o <<"index-a", n>> : n \in VendorNames }

\* The states of a candidate root: absent, complete, lacking one crate, and
\* complete with one crate extracted under a second registry as well.
RootStates(rootName) ==
    { [path |-> RegistrySrc(rootName), exists |-> FALSE, dirs |-> {}],
      [path |-> RegistrySrc(rootName), exists |-> TRUE, dirs |-> FullDirs(rootName)],
      [path |-> RegistrySrc(rootName), exists |-> TRUE,
       dirs |-> { d \in FullDirs(rootName) : FileName(d) # LackName }] }

HomeStates ==
    { IF r.exists /\ r.dirs = FullDirs("home")
      THEN [r EXCEPT !.dirs = @ \cup {RegistrySrc("home") \o <<"index-b", LackName>>}]
      ELSE r : r \in RootStates("home") }

\* possible_cargo_homes: ~/.cargo/registry/src, then $CARGO_HOME/registry/src
possible_cargo_homes == << cache.home, cache.override >>

\* .find_map(|p| p.filter(|path| path.exists()))
FirstExisting(candidates) ==
    LET hits == { k \in 1..Len(candidates) : candidates[k].exists }
    IN  IF hits = {} THEN None
        ELSE Some(candidates[CHOOSE h \in hits : \A g \in hits : h <= g].path)

\* The directories under a root.
DirsOf(rootPath) ==
    UNION { c.dirs : c \in { x \in { cache.home, cache.override } :
                               x.exists /\ x.path = rootPath } }

\* find_crate_source: the directories of the root named name-version at the
\* depth of the extracted crates.  The walk returns the first it meets in
\* an order the filesystem decides: any of them; none is the error.
find_crate_source(rootPath, name, version) ==
    { d \in DirsOf(rootPath) : FileName(d) = name \o "-" \o version }

(***************************************************************************)
(* Initial filesystem                                                       *)
(***************************************************************************)
RootManifests ==
    { << Entry(<<"dependencies">>, "foo", Str("1.0")),
         Entry(<<"dependencies">>, "bar",
               Inline(<< <<"version", "1">>, <<"features", <<"z">> >>,
                         <<"optional", "true">> >>)) >>,
      << Entry(<<"dev-dependencies">>, "alias",
               Inline(<< <<"package", "foo">>, <<"git", "https://example.org/foo">>,
                         <<"branch", "main">> >>)),
         Entry(<<"target", "cfg(unix)", "dependencies">>, "foo",
               Block(<< <<"version", "2">>, <<"registry", "alt">>,
                        <<"path", "../old">>, <<"features", <<"z">> >> >>)),
         Entry(<<"workspace", "dependencies">>, "foo", Str("1.0")) >>,
      << Entry(<<"dependencies">>, "foo", Inline(<< <<"path", "foo">> >>)),
         Entry(<<"build-dependencies">>, "baz", Str("1")),
         Entry(<<"dependencies">>, "bar",
               Block(<< <<"git", "https://example.org/bar">>, <<"tag", "v1">>,
                        <<"rev", "abc">> >>)) >>,
      << Entry(<<"dependencies">>, "foo", Other("true")),
         Entry(<<"build-dependencies">>, "bar", Str("*")) >> }

\* A directory left under the vendor root by something earlier, its content
\* unrelated to the cache.
StaleDir(manifest) ==
    [tree |-> <<"stale">>, manifest |-> manifest, bak |-> None, orig |-> FALSE]

VendorInits ==
    { [n \in VendorNames |-> None],
      [n \in VendorNames |->
          IF n = LackName
          THEN Some(StaleDir(Some(<< Entry(<<"dependencies">>, "bar", Str("0.9")) >>)))
          ELSE None],
      [n \in VendorNames |->
          IF n = LackName THEN Some(StaleDir(None)) ELSE None] }

Files == [vendor |-> vendor, root |-> root]

\* The manifests a run may rewrite: the project's and one per vendor directory.
MainManifest == "Cargo.toml"
ManifestFiles == {MainManifest} \cup VendorNames

Init ==
    /\ metadata \in Graphs
    /\ cache \in [home : HomeStates, override : RootStates("override")]
    /\ vendor \in VendorInits
    /\ \E m \in RootManifests :
          root = [manifest |-> Some(m), bak |-> None, orig |-> FALSE, lock |-> TRUE]
    /\ pc = "idle"
    /\ i = 0
    /\ cargo_home = None
    /\ source_path = [k \in 1..Len(metadata.nodes) |-> None]
    /\ prev_exit = "none"
    /\ at_start = Files
    /\ calls = [m \in ManifestFiles |-> 0]

(***************************************************************************)
(* main                                                                     *)
(***************************************************************************)
\* main up to the loop of copy_dependencies: the metadata is read, the
\* vendor root is created, the registry root is chosen.
StartRun ==
    /\ pc \in {"idle", "done", "failed"}
    /\ prev_exit' = (CASE pc = "done" -> "ok" [] pc = "failed" -> "err" [] OTHER -> "none")
    /\ at_start' = Files
    /\ calls' = [m \in ManifestFiles |-> 0]
    /\ source_path' = [k \in 1..Len(metadata.nodes) |-> None]
    /\ cargo_home' = FirstExisting(possible_cargo_homes)
    /\ pc' = IF cargo_home' = None THEN "failed" ELSE "copy"
    /\ i' = 1
    /\ UNCHANGED <<metadata, cache, vendor, root>>

\* The package of the node the copy loop stands at.
CopyPackage == package_map(metadata.nodes[i].id)

InCopyLoop == pc = "copy" /\ i <= Len(metadata.nodes)

\* copy_dependencies, an iteration: a workspace package is skipped.
CopySkipWorkspace ==
    /\ InCopyLoop
    /\ is_workspace_package(CopyPackage, metadata.workspace_root)
    /\ i' = i + 1
    /\ UNCHANGED <<metadata, cache, vendor, root, pc, cargo_home, source_path,
                   prev_exit, at_start, calls>>

\* Mutant of OnNotFound: the package is skipped and the loop goes on.
OnNotFoundContinue == "copy"

\* find_crate_source(..)?: the error leaves copy_dependencies and main.
OnNotFound == "failed"

\* copy_dependencies, an iteration: find_crate_source fails and the run ends.
CopyNotFound ==
    /\ InCopyLoop
    /\ ~is_workspace_package(CopyPackage, metadata.workspace_root)
    /\ find_crate_source(cargo_home[1], CopyPackage.name, CopyPackage.version) = {}
    /\ pc' = OnNotFound
    /\ i' = IF pc' = "failed" THEN i ELSE i + 1
    /\ UNCHANGED <<metadata, cache, vendor, root, cargo_home, source_path,
                   prev_exit, at_start, calls>>

\* Mutant of ShouldCopy: the source is copied over an existing directory.
ShouldCopyAlways(dest_path) == TRUE

\* if dest_path.exists() { continue; }
ShouldCopy(dest_path) == ~Exists(dest_path)

\* copy_dependencies, an iteration: the source is found; the destination
\* exists and is left alone, or the source is copied under the vendor root
\* with its own directory name.
CopyFound ==
    /\ InCopyLoop
    /\ ~is_workspace_package(CopyPackage, metadata.workspace_root)
    /\ \E src \in find_crate_source(cargo_home[1], CopyPackage.name, CopyPackage.version) :
          /\ source_path' = [source_path EXCEPT ![i] = Some(src)]
          /\ vendor' = IF ShouldCopy(ThirdPartyPath \o <<crate_dir_name(CopyPackage)>>)
                       THEN [vendor EXCEPT ![FileName(src)] = Some(SourceDir(src))]
                       ELSE vendor
    /\ i' = i + 1
    /\ UNCHANGED <<metadata, cache, root, pc, cargo_home, prev_exit, at_start, calls>>

\* update_cargo_toml, first call: the main Cargo.toml.
UpdateMain ==
    /\ pc = "copy" /\ i > Len(metadata.nodes)
    /\ root' = update_single_cargo_toml(root, ProjectPath \o <<"Cargo.toml">>)
    /\ calls' = [calls EXCEPT ![MainManifest] = @ + 1]
    /\ pc' = "update"
    /\ i' = 1
    /\ UNCHANGED <<metadata, cache, vendor, cargo_home, source_path, prev_exit, at_start>>

\* The package the loop of update_cargo_toml stands at, and its manifest
\* under the vendor root.
UpdatePackage == metadata.packages[i]

InUpdateLoop == pc = "update" /\ i <= Len(metadata.packages)

\* cargo_toml_path.exists()
HasManifest(dir_name) ==
    /\ dir_name \in DOMAIN vendor
    /\ vendor[dir_name] # None
    /\ vendor[dir_name][1].manifest # None

\* Mutant of ShouldUpdate: workspace members are not left out.
ShouldUpdateAnyPackage(package) == HasManifest(crate_dir_name(package))

\* The guard of the call in the loop of update_cargo_toml.
ShouldUpdate(package) ==
    /\ ~is_workspace_package(package, metadata.workspace_root)
    /\ HasManifest(crate_dir_name(package))

\* update_cargo_toml, an iteration that rewrites nothing.
UpdateSkip ==
    /\ InUpdateLoop
    /\ ~ShouldUpdate(UpdatePackage)
    /\ i' = i + 1
    /\ UNCHANGED <<metadata, cache, vendor, root, pc, cargo_home, source_path,
                   prev_exit, at_start, calls>>

\* update_cargo_toml, an iteration that rewrites a vendored manifest.
UpdateVendored ==
    /\ InUpdateLoop
    /\ ShouldUpdate(UpdatePackage)
    /\ LET n == crate_dir_name(UpdatePackage)
       IN  /\ vendor' = [vendor EXCEPT ![n] =
                  Some(update_single_cargo_toml(vendor[n][1],
                          ThirdPartyPath \o <<n, "Cargo.toml">>))]
           /\ calls' = [calls EXCEPT ![n] = @ + 1]
    /\ i' = i + 1
    /\ UNCHANGED <<metadata, cache, root, pc, cargo_home, source_path, prev_exit, at_start>>

\* main after update_cargo_toml: Cargo.lock is removed, the run ends well.
Finish ==
    /\ pc = "update" /\ i > Len(metadata.packages)
    /\ root' = [root EXCEPT !.lock = FALSE]
    /\ pc' = "done"
    /\ UNCHANGED <<metadata, cache, vendor, i, cargo_home, source_path, prev_exit,
                   at_start, calls>>

Next ==
    \/ StartRun
    \/ CopySkipWorkspace
    \/ CopyNotFound
    \/ CopyFound
    \/ UpdateMain
    \/ UpdateSkip
    \/ UpdateVendored
    \/ Finish

Spec == Init /\ [][Next]_vars

(***************************************************************************)
(* Properties                                                               *)
(***************************************************************************)
Nodes == 1..Len(metadata.nodes)

NodePackage(k) == package_map(metadata.nodes[k].id)

\* Node k is a package the copy loop vendors.
NonWorkspace(k) == ~is_workspace_package(NodePackage(k), metadata.workspace_root)

DirName(k) == crate_dir_name(NodePackage(k))

\* C1 as claimed: after a successful run, every non-workspace package of the
\* graph has its directory name-version under the vendor root, and that
\* directory's content is identical to the cache source directory the
\* locator found for it in the run, whatever the vendor root held before.
C1_VendoredIdenticalToSource ==
    pc = "done" =>
        \A k \in Nodes : NonWorkspace(k) =>
            /\ vendor[DirName(k)] # None
            /\ source_path[k] # None
            /\ vendor[DirName(k)][1] = SourceDir(source_path[k][1])

\* C1 as amended: after a successful run, every non-workspace package of the
\* graph has its directory under the vendor root.  A directory the run did
\* not find there is the copy of a source the locator found for that name
\* and version in the run, but for the crate's manifest files, which the
\* same run rewrites: Cargo.toml.bak holds the source's Cargo.toml and
\* Cargo.toml.orig is gone.  A directory the run found there keeps its tree.
C1_VendoredAfterRun ==
    pc = "done" =>
        \A k \in Nodes : NonWorkspace(k) =>
            /\ vendor[DirName(k)] # None
            /\ IF at_start.vendor[DirName(k)] = None
               THEN \E j \in Nodes :
                       /\ NonWorkspace(j)
                       /\ DirName(j) = DirName(k)
                       /\ source_path[j] # None
                       /\ vendor[DirName(k)][1].tree = source_path[j][1]
                       /\ vendor[DirName(k)][1].bak = Some(SourceManifest(source_path[j][1]))
                       /\ vendor[DirName(k)][1].manifest # None
                       /\ ~vendor[DirName(k)][1].orig
               ELSE vendor[DirName(k)][1].tree = at_start.vendor[DirName(k)][1].tree

\* A first run has ended well with one directory freshly copied and another
\* kept from before, its tree not the one of the source that was located.
C1_Witness ==
    /\ pc = "done"
    /\ \E k \in Nodes :
          /\ NonWorkspace(k)
          /\ at_start.vendor[DirName(k)] = None
          /\ vendor[DirName(k)] # None
    /\ \E k \in Nodes :
          /\ NonWorkspace(k)
          /\ at_start.vendor[DirName(k)] # None
          /\ source_path[k] # None
          /\ vendor[DirName(k)][1].tree # source_path[k][1]

\* The manifests a step rewrites, each as <<document before, document after,
\* path of the manifest>>: the project's in the step that leaves the copy
\* loop, a vendored one in an iteration of the update loop.
Rewritten ==
    IF pc = "copy" /\ pc' = "update"
    THEN { << root.manifest[1], root'.manifest[1], ProjectPath \o <<"Cargo.toml">> >> }
    ELSE IF pc = "update" /\ pc' = "update" /\ i' = i + 1 /\ ShouldUpdate(UpdatePackage)
    THEN { << vendor[crate_dir_name(UpdatePackage)][1].manifest[1],
              vendor'[crate_dir_name(UpdatePackage)][1].manifest[1],
              ThirdPartyPath \o <<crate_dir_name(UpdatePackage), "Cargo.toml">> >> }
    ELSE {}

\* The name an entry is looked up by: its `package` field, else its key.
LookupName(e) ==
    IF e.item.kind \in {"inline", "table"} /\ HasField(e.item.fields, "package")
    THEN Get(e.item.fields, "package")
    ELSE e.key

\* The nodes whose package bears a name, and the first of them.
Matches(name) == { k \in Nodes : NodePackage(k).name = name }
FirstMatch(name) == CHOOSE k \in Matches(name) : \A g \in Matches(name) : k <= g

\* The vendor root holds the directory of node k's package.
Vendored(k) == DirName(k) \in DOMAIN vendor /\ vendor[DirName(k)] # None

\* The relative path from a manifest's directory to a vendor directory:
\* below the project for the project's manifest, beside it for a vendored one.
ExpectedPath(cargo_toml_path, dir_name) ==
    IF Parent(cargo_toml_path) = ProjectPath
    THEN ThirdPartyDir \o "/" \o dir_name
    ELSE "../" \o dir_name

\* C2 as claimed: a workspace member is never copied into the vendor root,
\* and no entry that resolves to one, by its key or its `package` field, is
\* changed by a rewrite, whatever the vendor root holds.
C2_WorkspaceMemberUntouched ==
    [][ /\ (InCopyLoop /\ ~NonWorkspace(i)) => vendor' = vendor
        /\ \A t \in Rewritten : \A j \in 1..Len(t[1]) :
              ( /\ Matches(LookupName(t[1][j])) # {}
                /\ ~NonWorkspace(FirstMatch(LookupName(t[1][j]))) )
              => t[2][j] = t[1][j] ]_vars

\* C3: a run that follows a successful run on the same graph and cache
\* changes no file (no copy, no manifest or sidecar whose content changes)
\* and does not fail.
C3_SecondRunChangesNothing ==
    [][ prev_exit' = "ok" => (Files' = Files /\ pc' # "failed") ]_vars

\* A second run has ended after a first one that vendored a crate and
\* rewrote the project's manifest and a vendored one.
C3_Witness ==
    /\ prev_exit = "ok"
    /\ pc = "done"
    /\ root.bak # None /\ root.bak # root.manifest
    /\ \E n \in VendorNames :
          /\ vendor[n] # None
          /\ vendor[n][1].bak # None
          /\ vendor[n][1].bak # vendor[n][1].manifest

\* C4: for every manifest, a call of the rewriter leaves a .bak behind; a
\* .bak that is created holds the manifest as it was before the step; and a
\* .bak that exists is never changed again, in this run or a later one.
C4_BackupOnceAndPristine ==
    [][ \A f \in ManifestFiles :
          LET before == IF f = MainManifest THEN Some(root) ELSE vendor[f]
              after == IF f = MainManifest THEN Some(root') ELSE vendor'[f]
          IN  (before # None /\ before[1].manifest # None) =>
                /\ after # None
                /\ before[1].bak # None => after[1].bak = before[1].bak
                /\ (before[1].bak = None /\ after[1].bak # None)
                      => after[1].bak = before[1].manifest
                /\ calls'[f] = calls[f] + 1 => after[1].bak # None ]_vars

\* A later run has rewritten the project's manifest again, whose .bak differs
\* from the manifest, and a vendored manifest too.
C4_Witness ==
    /\ prev_exit = "ok"
    /\ pc = "update"
    /\ calls[MainManifest] = 1
    /\ root.bak # None /\ root.bak # root.manifest
    /\ \E n \in VendorNames :
          /\ calls[n] > 0
          /\ vendor[n][1].bak # vendor[n][1].manifest

\* C5: when the locator finds no directory for the non-workspace package the
\* copy loop stands at, the run fails in that step and changes no file; in a
\* failed run no manifest has been rewritten, what the vendor root held at
\* the start is as it was, and the directories copied for the packages before
\* are there as copied.
C5_AbortBeforeRewrites ==
    /\ [][ ( /\ InCopyLoop
             /\ NonWorkspace(i)
             /\ find_crate_source(cargo_home[1], CopyPackage.name, CopyPackage.version) = {} )
           => (pc' = "failed" /\ Files' = Files) ]_vars
    /\ [](pc = "failed" =>
            /\ root = at_start.root
            /\ \A j \in 1..(i - 1) : NonWorkspace(j) => vendor[DirName(j)] # None
            /\ \A n \in VendorNames :
                  IF at_start.vendor[n] # None
                  THEN vendor[n] = at_start.vendor[n]
                  ELSE vendor[n] # None =>
                          \E j \in 1..(i - 1) :
                             /\ NonWorkspace(j)
                             /\ DirName(j) = n
                             /\ source_path[j] # None
                             /\ vendor[n][1].tree = source_path[j][1]
                             /\ vendor[n][1].manifest = Some(SourceManifest(source_path[j][1]))
                             /\ vendor[n][1].bak = None)

\* A run has failed at a later package after copying an earlier one.
C5_Witness ==
    /\ pc = "failed"
    /\ i > 2
    /\ find_crate_source(cargo_home[1], CopyPackage.name, CopyPackage.version) = {}
    /\ \E n \in VendorNames : at_start.vendor[n] = None /\ vendor[n] # None

\* A candidate root holds a directory named for node k's package.
HoldsMatch(c, k) == c.exists /\ \E d \in c.dirs : FileName(d) = DirName(k)

\* C6 as claimed: the candidate roots are searched in order and the source
\* comes from the first root that holds a directory of the exact name;
\* locating fails only if no candidate root holds one.
C6_SearchesEveryRoot ==
    /\ (pc = "failed" /\ cargo_home # None) =>
          \A c \in 1..Len(possible_cargo_homes) : ~HoldsMatch(possible_cargo_homes[c], i)
    /\ \A k \in Nodes : source_path[k] # None =>
          /\ FileName(source_path[k][1]) = DirName(k)
          /\ \E c \in 1..Len(possible_cargo_homes) :
                /\ source_path[k][1] \in possible_cargo_homes[c].dirs
                /\ \A b \in 1..(c - 1) : ~HoldsMatch(possible_cargo_homes[b], k)

\* What the rewrite makes of a bare version string that resolves to node k.
ExpectedShorthand(k, cargo_toml_path) ==
    Inline(<< <<"path", ExpectedPath(cargo_toml_path, DirName(k))>> >>
           \o IF metadata.nodes[k].features # <<>>
              THEN << <<"features", metadata.nodes[k].features>> >>
              ELSE <<>>)

\* C7 as claimed: a bare version string in a visited section whose key names
\* a package of the graph with an existing vendor directory becomes the
\* inline table of that package's path and, if any, its features.
C7_ShorthandAnyMatch ==
    [][ \A t \in Rewritten : \A j \in 1..Len(t[1]) :
          (Visited(t[1][j].section) /\ t[1][j].item.kind = "string") =>
             \A k \in Matches(t[1][j].key) : Vendored(k) =>
                t[2][j] = [t[1][j] EXCEPT !.item = ExpectedShorthand(k, t[3])] ]_vars

\* C7 as amended: the package is the first node of the graph whose package
\* bears the key's name; if its vendor directory exists the entry becomes
\* the inline table holding `path`, the relative path from the manifest's
\* directory to that directory, then `features`, the node's features in
\* order, if there are any, and nothing else.
C7_ShorthandFirstMatch ==
    [][ \A t \in Rewritten : \A j \in 1..Len(t[1]) :
          ( /\ Visited(t[1][j].section)
            /\ t[1][j].item.kind = "string"
            /\ Matches(t[1][j].key) # {}
            /\ Vendored(FirstMatch(t[1][j].key)) ) =>
                t[2][j] = [t[1][j] EXCEPT
                             !.item = ExpectedShorthand(FirstMatch(t[1][j].key), t[3])] ]_vars

\* A run has turned a bare version string of the project's manifest into an
\* inline table with features, and one of a vendored manifest into an inline
\* table with a path beside it.
C7_Witness ==
    /\ pc = "done"
    /\ prev_exit = "none"
    /\ \E j \in 1..Len(root.manifest[1]) :
          /\ at_start.root.manifest[1][j].item.kind = "string"
          /\ root.manifest[1][j].item.kind = "inline"
          /\ HasField(root.manifest[1][j].item.fields, "features")
    /\ \E n \in VendorNames :
          /\ vendor[n] # None
          /\ vendor[n][1].bak # None
          /\ \E j \in 1..Len(vendor[n][1].bak[1]) :
                /\ vendor[n][1].bak[1][j].item.kind = "string"
                /\ vendor[n][1].manifest[1][j].item =
                      Inline(<< <<"path", "../bar-1.0.0">>, <<"features", <<"y">> >> >>)

SourceFields == {"version", "git", "branch", "tag", "rev", "registry"}

\* What C8 says of the fields of a rewritten table that resolves to node k.
TableRewrittenFor(fields, k, cargo_toml_path) ==
    /\ \A r \in SourceFields : ~HasField(fields, r)
    /\ HasField(fields, "path")
    /\ Get(fields, "path") = ExpectedPath(cargo_toml_path, DirName(k))
    /\ metadata.nodes[k].features # <<>> =>
          /\ HasField(fields, "features")
          /\ Get(fields, "features") = metadata.nodes[k].features

\* C8 as claimed: an inline table or table whose lookup name matches a
\* package of the graph with an existing vendor directory loses version,
\* git, branch, tag, rev and registry and gets that package's path and, if
\* any, its features.
C8_TableAnyMatch ==
    [][ \A t \in Rewritten : \A j \in 1..Len(t[1]) :
          (Visited(t[1][j].section) /\ t[1][j].item.kind \in {"inline", "table"}) =>
             \A k \in Matches(LookupName(t[1][j])) : Vendored(k) =>
                TableRewrittenFor(t[2][j].item.fields, k, t[3]) ]_vars

\* C8 as amended: the package is the first node of the graph whose package
\* bears the lookup name; if its vendor directory exists, the six source
\* fields are gone after the rewrite, `path` is the relative path to that
\* directory and `features` is the node's features if there are any.
C8_TableFirstMatch ==
    [][ \A t \in Rewritten : \A j \in 1..Len(t[1]) :
          ( /\ Visited(t[1][j].section)
            /\ t[1][j].item.kind \in {"inline", "table"}
            /\ Matches(LookupName(t[1][j])) # {}
            /\ Vendored(FirstMatch(LookupName(t[1][j]))) ) =>
                /\ t[2][j].item.kind = t[1][j].item.kind
                /\ TableRewrittenFor(t[2][j].item.fields,
                                     FirstMatch(LookupName(t[1][j])), t[3]) ]_vars

\* A run has rewritten a renamed inline table with git and branch and a
\* table with version, registry, path and features of the project's manifest.
C8_Witness ==
    /\ pc = "done"
    /\ prev_exit = "none"
    /\ \E j \in 1..Len(root.manifest[1]) :
          /\ at_start.root.manifest[1][j].item.kind = "inline"
          /\ HasField(at_start.root.manifest[1][j].item.fields, "package")
          /\ HasField(at_start.root.manifest[1][j].item.fields, "git")
          /\ ~HasField(root.manifest[1][j].item.fields, "git")
          /\ HasField(root.manifest[1][j].item.fields, "path")
    /\ \E j \in 1..Len(root.manifest[1]) :
          /\ at_start.root.manifest[1][j].item.kind = "table"
          /\ HasField(at_start.root.manifest[1][j].item.fields, "path")
          /\ root.manifest[1][j].item.fields # at_start.root.manifest[1][j].item.fields

\* C9 as claimed: when the copy loop reaches a non-workspace package whose
\* directory exists under the vendor root, it leaves the vendor root as it
\* is and goes on to the next package, whatever the cache holds.
C9_ExistingAlwaysSkipped ==
    [][ ( /\ InCopyLoop
          /\ NonWorkspace(i)
          /\ Exists(ThirdPartyPath \o <<DirName(i)>>) )
        => (vendor' = vendor /\ pc' = "copy" /\ i' = i + 1) ]_vars

\* The package-list entries whose vendored manifest the update loop rewrites.
Rewriters(n) ==
    { k \in 1..Len(metadata.packages) :
        /\ ~is_workspace_package(metadata.packages[k], metadata.workspace_root)
        /\ crate_dir_name(metadata.packages[k]) = n
        /\ n \in DOMAIN vendor /\ vendor[n] # None /\ vendor[n][1].manifest # None }

\* C10 as claimed: in a run the rewriter is called once for the project's
\* manifest and once for each vendored manifest, never twice for one file,
\* also when packages share a name and version; the graph is the same for
\* every call.
C10_OncePerManifest ==
    /\ \A f \in ManifestFiles : calls[f] <= 1
    /\ pc = "done" =>
          /\ calls[MainManifest] = 1
          /\ \A n \in VendorNames : Rewriters(n) # {} => calls[n] = 1

\* C10 as amended: in a run the rewriter is called once for the project's
\* manifest and, for a vendored manifest, once per entry of the package list
\* that is not a workspace member and has that name and version: once when
\* one package has them, once per identity when several share them; the
\* graph is the same for every call.
C10_OncePerPackage ==
    /\ [](pc = "done" =>
            /\ calls[MainManifest] = 1
            /\ \A n \in VendorNames : calls[n] = Cardinality(Rewriters(n)))
    /\ [][metadata' = metadata]_vars

\* A run has ended in which one vendored manifest was rewritten twice, once
\* for each of two packages of its name and version.
C10_Witness ==
    /\ pc = "done"
    /\ \E n \in VendorNames : calls[n] = 2 /\ Cardinality(Rewriters(n)) = 2

====
